---- MODULE Spec2Model ----
(***************************************************************************)
(* Joint modelling of Phobos (phobos/model/joints.py): the translation    *)
(* between a joint type with limits and the LIMIT_LOCATION /              *)
(* LIMIT_ROTATION constraint records of a link's single pose bone, the    *)
(* joint/* custom properties of the link, and the classifier that reads   *)
(* the constraint records back.                                           *)
(*                                                                         *)
(* Numbers stand for the floats of the source.  Limits are counted in     *)
(* units of 1e-5, so the default pair (-1e-5, 1e-5) is (-1, 1).           *)
(* A custom property is <<>> when the key is absent and <<v>> when it     *)
(* holds v.  A dictionary argument is given by the set of its keys.       *)
(***************************************************************************)
EXTENDS Integers, Sequences, FiniteSets, TLC

VARIABLES link, world, last

vars == <<link, world, last>>

-----------------------------------------------------------------------------
(* Program constants *)

DefaultLower == -1
DefaultUpper == 1

(* Bound of the input domain: limits range over Vals *)

MaxVal == 1

Vals == DefaultLower..MaxVal

KnownTypes == {"revolute", "continuous", "prismatic", "fixed", "floating", "planar"}
JointTypeInputs == KnownTypes \cup {"ball"}

EffortKey == "joint/maxEffort"
SpeedKey == "joint/maxSpeed"
DynamicsKeys == {"joint/dynamics/springStiffness", "joint/dynamics/springDamping",
                 "joint/dynamics/spring_const_constraint_axis1",
                 "joint/dynamics/damping_const_constraint_axis1"}
ApproxKeys == {"joint/maxeffort_approximation", "joint/maxeffort_coefficients",
               "joint/maxspeed_approximation", "joint/maxspeed_coefficients"}
ExtraKeys == {"joint/test/etc", "joint/test/more"}
UncopiedKeys == {"joint/note/etc", "joint/test/more/deep"}
PropKeys == {"joint/name", "joint/type", EffortKey, SpeedKey}
              \cup DynamicsKeys \cup ApproxKeys \cup ExtraKeys \cup UncopiedKeys

FFF == <<FALSE, FALSE, FALSE>>
TTT == <<TRUE, TRUE, TRUE>>
Zero3 == <<0, 0, 0>>

-----------------------------------------------------------------------------
(* Constraint records of the pose bone.  use_min/use_max belong to a       *)
(* LIMIT_LOCATION record and use_limit to a LIMIT_ROTATION record; the     *)
(* flags of the other kind stay FALSE.  Index 1, 2, 3 is x, y, z.  The     *)
(* field old is history: it is FALSE on a record created by the call in    *)
(* progress and TRUE on a record that existed when the call began.         *)

NewConstraint(ctype) ==
    [type |-> ctype, use_min |-> FFF, use_max |-> FFF, use_limit |-> FFF,
     min |-> Zero3, max |-> Zero3, owner_space |-> "WORLD", old |-> FALSE]

(* bpy.ops.pose.constraint_add: a record with Blender's defaults is        *)
(* appended to the bone's constraint list.                                 *)
constraint_add(o, ctype) ==
    [o EXCEPT !.constraints = Append(@, NewConstraint(ctype))]

RECURSIVE LastIndexOf(_, _, _)
LastIndexOf(cs, ctype, i) ==
    IF i = 0 THEN 0
    ELSE IF cs[i].type = ctype THEN i
    ELSE LastIndexOf(cs, ctype, i - 1)

(* getJointConstraint: the last record of the given type, 0 for None. *)
getJointConstraint(o, ctype) == LastIndexOf(o.constraints, ctype, Len(o.constraints))

HasKey(o, k) == o.props[k] # <<>>
Value(o, k) == o.props[k][1]
SetProp(o, k, v) == [o EXCEPT !.props[k] = <<v>>]

-----------------------------------------------------------------------------
(* The constraint builders, joints.py 430-600.  Each adds a LIMIT_LOCATION *)
(* and a LIMIT_ROTATION record and sets fields of the record that          *)
(* getJointConstraint then finds; min and max keep Blender's default 0     *)
(* wherever the source does not assign them.                               *)

Found(o, ctype) == o.constraints[getJointConstraint(o, ctype)]
Store(o, ctype, c) == [o EXCEPT !.constraints[getJointConstraint(o, ctype)] = c]

LockLocation(c) ==
    [c EXCEPT !.use_min = TTT, !.use_max = TTT, !.owner_space = "LOCAL"]

LockRotation(c) ==
    [c EXCEPT !.use_limit = TTT, !.min = Zero3, !.max = Zero3, !.owner_space = "LOCAL"]

RevoluteRotation(c, lower, upper) ==
    [c EXCEPT !.use_limit = TTT, !.min = <<0, lower, 0>>, !.max = <<0, upper, 0>>,
              !.owner_space = "LOCAL"]

ContinuousRotation(c) ==
    [c EXCEPT !.use_limit = <<TRUE, c.use_limit[2], TRUE>>,
              !.min = <<0, c.min[2], 0>>, !.max = <<0, c.max[2], 0>>,
              !.owner_space = "LOCAL"]

(* the enable flags of the slide axis cleared whatever the range *)
PrismaticLocationDisabled(c, lower, upper) ==
    [c EXCEPT !.use_min = <<TRUE, FALSE, TRUE>>, !.use_max = <<TRUE, FALSE, TRUE>>,
              !.min = <<c.min[1], lower, c.min[3]>>,
              !.max = <<c.max[1], upper, c.max[3]>>,
              !.owner_space = "LOCAL"]

(* the slide range written without the test lower == upper *)
PrismaticLocationNoTest(c, lower, upper) ==
    [c EXCEPT !.use_min = TTT, !.use_max = TTT,
              !.min = <<c.min[1], lower, c.min[3]>>,
              !.max = <<c.max[1], upper, c.max[3]>>,
              !.owner_space = "LOCAL"]

PrismaticLocation(c, lower, upper) ==
    IF lower = upper
    THEN [c EXCEPT !.use_min = <<TRUE, FALSE, TRUE>>, !.use_max = <<TRUE, FALSE, TRUE>>,
                   !.owner_space = "LOCAL"]
    ELSE [c EXCEPT !.use_min = TTT, !.use_max = TTT,
                   !.min = <<c.min[1], lower, c.min[3]>>,
                   !.max = <<c.max[1], upper, c.max[3]>>,
                   !.owner_space = "LOCAL"]

(* the in-plane axis x enabled in place of y *)
PlanarLocationX(c) ==
    [c EXCEPT !.use_min = <<TRUE, c.use_min[2], c.use_min[3]>>,
              !.use_max = <<TRUE, c.use_max[2], c.use_max[3]>>,
              !.owner_space = "LOCAL"]

PlanarLocation(c) ==
    [c EXCEPT !.use_min = <<c.use_min[1], TRUE, c.use_min[3]>>,
              !.use_max = <<c.use_max[1], TRUE, c.use_max[3]>>,
              !.owner_space = "LOCAL"]

(* One record of a builder: it is added, looked up and filled in. *)
LockedLocation(o) ==
    Store(o, "LIMIT_LOCATION", LockLocation(Found(o, "LIMIT_LOCATION")))

LockedRotation(o) ==
    Store(o, "LIMIT_ROTATION", LockRotation(Found(o, "LIMIT_ROTATION")))

AddLockedLocation(o) == LockedLocation(constraint_add(o, "LIMIT_LOCATION"))
AddLockedRotation(o) == LockedRotation(constraint_add(o, "LIMIT_ROTATION"))

RevoluteRotated(o, lower, upper) ==
    Store(o, "LIMIT_ROTATION", RevoluteRotation(Found(o, "LIMIT_ROTATION"), lower, upper))

(* the hinge range written to the x axis *)
RevoluteRotatedX(o, lower, upper) ==
    Store(o, "LIMIT_ROTATION",
          [Found(o, "LIMIT_ROTATION") EXCEPT !.use_limit = TTT, !.min = <<lower, 0, 0>>,
                                             !.max = <<upper, 0, 0>>,
                                             !.owner_space = "LOCAL"])

ContinuousRotated(o) ==
    Store(o, "LIMIT_ROTATION", ContinuousRotation(Found(o, "LIMIT_ROTATION")))

PrismaticLocated(o, lower, upper) ==
    Store(o, "LIMIT_LOCATION", PrismaticLocation(Found(o, "LIMIT_LOCATION"), lower, upper))

PlanarLocated(o) ==
    Store(o, "LIMIT_LOCATION", PlanarLocation(Found(o, "LIMIT_LOCATION")))

set_revolute_x(o, lower, upper) ==
    RevoluteRotatedX(constraint_add(AddLockedLocation(o), "LIMIT_ROTATION"), lower, upper)

set_revolute(o, lower, upper) ==
    RevoluteRotated(constraint_add(AddLockedLocation(o), "LIMIT_ROTATION"), lower, upper)

(* the hinge axis limited like the other two *)
set_continuous_limited(o) == AddLockedRotation(AddLockedLocation(o))

set_continuous(o) ==
    ContinuousRotated(constraint_add(AddLockedLocation(o), "LIMIT_ROTATION"))

set_prismatic(o, lower, upper) ==
    AddLockedRotation(PrismaticLocated(constraint_add(o, "LIMIT_LOCATION"), lower, upper))

(* the rotation record left out *)
set_fixed_location_only(o) == AddLockedLocation(o)

set_fixed(o) == AddLockedRotation(AddLockedLocation(o))

set_planar(o) ==
    AddLockedRotation(PlanarLocated(constraint_add(o, "LIMIT_LOCATION")))

(* an unknown type built like a fixed joint *)
ApplyTypeUnknownFixed(o, jointtype, lower, upper) ==
    IF jointtype = "revolute" THEN set_revolute(o, lower, upper)
    ELSE IF jointtype = "continuous" THEN set_continuous(o)
    ELSE IF jointtype = "prismatic" THEN set_prismatic(o, lower, upper)
    ELSE IF jointtype = "floating" THEN o
    ELSE IF jointtype = "planar" THEN set_planar(o)
    ELSE set_fixed(o)

(* The if/elif chain of setJointConstraints, joints.py 286-301. *)
ApplyType(o, jointtype, lower, upper) ==
    IF jointtype = "revolute" THEN set_revolute(o, lower, upper)
    ELSE IF jointtype = "continuous" THEN set_continuous(o)
    ELSE IF jointtype = "prismatic" THEN set_prismatic(o, lower, upper)
    ELSE IF jointtype = "fixed" THEN set_fixed(o)
    ELSE IF jointtype = "floating" THEN o
    ELSE IF jointtype = "planar" THEN set_planar(o)
    ELSE o

-----------------------------------------------------------------------------
(* The classifier, joints.py 337-406. *)

Count3(b) == (IF b[1] THEN 1 ELSE 0) + (IF b[2] THEN 1 ELSE 0) + (IF b[3] THEN 1 ELSE 0)

(* cloc without the test of the enable flag *)
TypeLockedAnyRange(c) == [i \in 1..3 |-> c.min[i] = c.max[i]]

(* cloc of getJointType: use_min and min == max, per axis (352-357). *)
TypeLocked(c) == [i \in 1..3 |-> c.use_min[i] /\ c.min[i] = c.max[i]]

(* crot without the test for a nonzero bound *)
ActiveRotAnyLimit(c) == [i \in 1..3 |-> c.use_limit[i]]

(* crot of getJointType: limited with a nonzero bound, per axis (360-364). *)
ActiveRot(c) == [i \in 1..3 |-> c.use_limit[i] /\ (c.min[i] # 0 \/ c.max[i] # 0)]

(* ncrot counted over the axes with a nonzero bound instead of the flags *)
getJointTypeActiveCount(o) ==
    LET il == getJointConstraint(o, "LIMIT_LOCATION")
        ir == getJointConstraint(o, "LIMIT_ROTATION")
        ncloc == IF il = 0 THEN -1 ELSE Count3(TypeLocked(o.constraints[il]))
        crot == IF ir = 0 THEN FFF ELSE ActiveRot(o.constraints[ir])
        ncrot == IF ir = 0 THEN -1 ELSE Count3(crot)
        jtype ==
            IF il = 0 THEN "floating"
            ELSE IF ncloc = 3
                 THEN IF ncrot = 3
                      THEN IF Count3(crot) > 0 THEN "revolute" ELSE "fixed"
                      ELSE IF ncrot = 2 THEN "continuous" ELSE "floating"
                 ELSE IF ncloc = 2 THEN "prismatic"
                 ELSE IF ncloc = 1 THEN "planar"
                 ELSE "floating"
    IN  [jtype |-> jtype, hasrot |-> ir # 0, crot |-> crot]

(* getJointType: the last record of each kind decides; hasrot is FALSE when *)
(* crot is None. *)
getJointType(o) ==
    LET il == getJointConstraint(o, "LIMIT_LOCATION")
        ir == getJointConstraint(o, "LIMIT_ROTATION")
        ncloc == IF il = 0 THEN -1 ELSE Count3(TypeLocked(o.constraints[il]))
        ncrot == IF ir = 0 THEN -1 ELSE Count3(o.constraints[ir].use_limit)
        crot == IF ir = 0 THEN FFF ELSE ActiveRot(o.constraints[ir])
        jtype ==
            IF il = 0 THEN "floating"
            ELSE IF ncloc = 3
                 THEN IF ncrot = 3
                      THEN IF Count3(crot) > 0 THEN "revolute" ELSE "fixed"
                      ELSE IF ncrot = 2 THEN "continuous" ELSE "floating"
                 ELSE IF ncloc = 2 THEN "prismatic"
                 ELSE IF ncloc = 1 THEN "planar"
                 ELSE "floating"
    IN  [jtype |-> jtype, hasrot |-> ir # 0, crot |-> crot]

deriveJointType(o) == getJointType(o)

(* freeloc with the lock test of getJointType *)
ResolveLockedMinOnly(c) == [i \in 1..3 |-> c.use_min[i] /\ c.min[i] = c.max[i]]

(* freeloc of getJointConstraints: both flags set and min == max (170-174). *)
ResolveLocked(c) == [i \in 1..3 |-> c.use_min[i] /\ c.use_max[i] /\ c.min[i] = c.max[i]]

FirstTrue(b) == IF b[1] THEN 1 ELSE IF b[2] THEN 2 ELSE IF b[3] THEN 3 ELSE 0
FirstFalse(b) == IF ~b[1] THEN 1 ELSE IF ~b[2] THEN 2 ELSE IF ~b[3] THEN 3 ELSE 0

(* the pairs taken in the order of the axis vector's own component first *)
PlanarLimitsRotated(c, axis) ==
    IF axis[1] # 0 THEN <<c.min[3], c.max[3], c.min[2], c.max[2]>>
    ELSE IF axis[2] # 0 THEN <<c.min[3], c.max[3], c.min[1], c.max[1]>>
    ELSE <<c.min[2], c.max[2], c.min[1], c.max[1]>>

(* joints.py 192-197: the ranges of the two axes the vector does not name *)
PlanarLimits(c, axis) ==
    IF axis[1] # 0 THEN <<c.min[2], c.max[2], c.min[3], c.max[3]>>
    ELSE IF axis[2] # 0 THEN <<c.min[1], c.max[1], c.min[3], c.max[3]>>
    ELSE <<c.min[1], c.max[1], c.min[2], c.max[2]>>

(* getJointConstraints, joints.py 134-204.  raised is TRUE when the        *)
(* JointTypeError exception leaves the function; axis and limits are <<>>  *)
(* for None.                                                               *)
getJointConstraints(o) ==
    LET d == deriveJointType(o)
        jt == d.jtype
        none == [raised |-> FALSE, axis |-> <<>>, limits |-> <<>>]
        error == [raised |-> TRUE, axis |-> <<>>, limits |-> <<>>]
    IN  IF jt \in {"floating", "fixed"} THEN none
        ELSE IF jt \in {"revolute", "continuous"} /\ d.hasrot
        THEN LET c == o.constraints[getJointConstraint(o, "LIMIT_ROTATION")]
                 k == FirstTrue(d.crot)
             IN  [raised |-> FALSE, axis |-> o.bone,
                  limits |-> IF k = 0 THEN <<>> ELSE <<c.min[k], c.max[k]>>]
        ELSE LET il == getJointConstraint(o, "LIMIT_LOCATION")
             IN  IF il = 0 THEN error
                 ELSE LET c == o.constraints[il]
                          freeloc == ResolveLocked(c)
                      IN  IF jt = "prismatic"
                          THEN IF Count3(freeloc) = 2
                               THEN LET k == FirstFalse(freeloc)
                                    IN  [raised |-> FALSE, axis |-> o.bone,
                                         limits |-> <<c.min[k], c.max[k]>>]
                               ELSE error
                          ELSE IF jt = "planar"
                          THEN IF Count3(freeloc) = 1
                               THEN LET axis == [i \in 1..3 |-> IF freeloc[i] THEN 1 ELSE 0]
                                    IN  [raised |-> FALSE, axis |-> axis,
                                         limits |-> PlanarLimits(c, axis)]
                               ELSE error
                          ELSE none

-----------------------------------------------------------------------------
(* setJointConstraints, joints.py 225-334.  A run is the link as written   *)
(* so far, the diagnostics logged (level, subject), the stages of the      *)
(* writes in the order they happened, and how the call ended.              *)

FunctionId == "poly"
Coefficients == <<1, 2>>

Run(o) == [obj |-> o, log |-> <<>>, writes |-> <<>>, outcome |-> "done"]
Log(r, level, subject) == [r EXCEPT !.log = Append(@, <<level, subject>>)]
Wrote(r, o, stage) == [r EXCEPT !.obj = o, !.writes = Append(@, stage)]

MarkOld(cs) == [i \in 1..Len(cs) |-> [cs[i] EXCEPT !.old = TRUE]]

(* for cons in constraints: constraints.remove(cons), joints.py 265-266.   *)
(* The bpy collection iterator steps to the following record before it     *)
(* hands out the current one, so removing the record handed out does not   *)
(* disturb the traversal and every record is visited and removed.          *)
RECURSIVE RemoveFrom(_, _)
RemoveFrom(cs, i) ==
    IF i > Len(cs) THEN cs
    ELSE RemoveFrom(SubSeq(cs, 1, i - 1) \o SubSeq(cs, i + 1, Len(cs)), i)

(* The traversal of a list by position, which skips the record that moves  *)
(* into the place of the one removed.                                      *)
RECURSIVE RemoveSkipping(_, _)
RemoveSkipping(cs, i) ==
    IF i > Len(cs) THEN cs
    ELSE RemoveSkipping(SubSeq(cs, 1, i - 1) \o SubSeq(cs, i + 1, Len(cs)), i + 1)

RemoveSkippingAll(cs) == RemoveSkipping(cs, 1)

RemoveConstraints(cs) == RemoveFrom(cs, 1)

(* the dynamics properties skipped when the rigid body constraint fails *)
AddDynamicsOrGiveUp(r, jointtype, spring, damping, rbOk) ==
    IF jointtype \in {"revolute", "prismatic"} /\ (spring # 0 \/ damping # 0)
    THEN IF rbOk
         THEN LET o0 == [r.obj EXCEPT !.rigid_body = <<spring, damping>>]
                  o1 == SetProp(o0, "joint/dynamics/springStiffness", spring)
                  o2 == SetProp(o1, "joint/dynamics/springDamping", damping)
                  o3 == SetProp(o2, "joint/dynamics/spring_const_constraint_axis1", spring)
                  o4 == SetProp(o3, "joint/dynamics/damping_const_constraint_axis1", damping)
              IN  Wrote(r, o4, "dynamics")
         ELSE Log(r, "ERROR", "rigidbody")
    ELSE r

(* the dynamics written only when spring and damping are both nonzero *)
AddDynamicsBothNonzero(r, jointtype, spring, damping, rbOk) ==
    IF jointtype \in {"revolute", "prismatic"} /\ (spring # 0 /\ damping # 0)
    THEN LET r1 == IF rbOk
                   THEN [r EXCEPT !.obj.rigid_body = <<spring, damping>>]
                   ELSE Log(r, "ERROR", "rigidbody")
             o1 == SetProp(r1.obj, "joint/dynamics/springStiffness", spring)
             o2 == SetProp(o1, "joint/dynamics/springDamping", damping)
             o3 == SetProp(o2, "joint/dynamics/spring_const_constraint_axis1", spring)
             o4 == SetProp(o3, "joint/dynamics/damping_const_constraint_axis1", damping)
         IN  Wrote(r1, o4, "dynamics")
    ELSE r

(* joints.py 268-284: the rigid body spring and the dynamics properties.   *)
(* rbOk is FALSE when bpy.ops.rigidbody.constraint_add raises RuntimeError *)
(* (no rigid body world in the scene).                                     *)
AddDynamics(r, jointtype, spring, damping, rbOk) ==
    IF jointtype \in {"revolute", "prismatic"} /\ (spring # 0 \/ damping # 0)
    THEN LET r1 == IF rbOk
                   THEN [r EXCEPT !.obj.rigid_body = <<spring, damping>>]
                   ELSE Log(r, "ERROR", "rigidbody")
             o1 == SetProp(r1.obj, "joint/dynamics/springStiffness", spring)
             o2 == SetProp(o1, "joint/dynamics/springDamping", damping)
             o3 == SetProp(o2, "joint/dynamics/spring_const_constraint_axis1", spring)
             o4 == SetProp(o3, "joint/dynamics/damping_const_constraint_axis1", damping)
         IN  Wrote(r1, o4, "dynamics")
    ELSE r

(* joints.py 307-317 and 318-328: one approximation argument, given by the *)
(* set of its keys.  A missing key read by approx['function'] or           *)
(* approx['coefficients'] raises KeyError.                                 *)
AddApproximation(r, kind, approx) ==
    IF r.outcome # "done" \/ approx = {} THEN r
    ELSE IF approx \subseteq {"function", "coefficients"}
    THEN IF "function" \notin approx THEN [r EXCEPT !.outcome = "KeyError"]
         ELSE LET r1 == Wrote(r, SetProp(r.obj, "joint/max" \o kind \o "_approximation",
                                         FunctionId), "approximation")
              IN  IF "coefficients" \notin approx THEN [r1 EXCEPT !.outcome = "KeyError"]
                  ELSE Wrote(r1, SetProp(r1.obj, "joint/max" \o kind \o "_coefficients",
                                         Coefficients), "approximation")
    ELSE Log(r, "ERROR", "max" \o kind \o "_approximation")

(* ioUtils.getResource(('joint', jointtype)): the resource object named    *)
(* after the joint type; the resource library holds one for each of the    *)
(* six joint types and none for any other name (None, here <<>>).          *)
getResource(jointtype) == IF jointtype \in KnownTypes THEN <<jointtype>> ELSE <<>>

(* joints.py 330-334 *)
SetVisualization(r, jointtype) ==
    IF r.outcome # "done" THEN r
    ELSE LET shape == getResource(jointtype)
         IN  IF shape # <<>>
             THEN Wrote(r, [r.obj EXCEPT !.custom_shape = shape], "visualization")
             ELSE r

(* the records of earlier calls kept *)
RemoveNothing(o) == Run(o)

(* joints.py 264-266 *)
RemoveOld(o) ==
    IF o.constraints = <<>> THEN Run(o)
    ELSE Wrote(Run(o), [o EXCEPT !.constraints = RemoveConstraints(@)], "remove")

(* joints.py 286-301: a write only where a builder ran *)
WroteConstraints(r, o) == IF o = r.obj THEN r ELSE Wrote(r, o, "constraints")
SetConstraints(r, jointtype, lower, upper) ==
    WroteConstraints(r, ApplyType(r.obj, jointtype, lower, upper))

(* joints.py 300-302 *)
SetType(r, jointtype) ==
    Wrote(IF jointtype \in KnownTypes THEN r ELSE Log(r, "WARNING", "type"),
          SetProp(r.obj, "joint/type", jointtype), "type")

(* joints.py 305-328 *)
AddApproximations(r, jointtype, ea, sa) ==
    IF jointtype \in {"revolute", "continuous", "prismatic"}
    THEN AddApproximation(AddApproximation(r, "effort", ea), "speed", sa)
    ELSE r

setJointConstraints(o, jointtype, lower, upper, spring, damping, ea, sa, rbOk) ==
    IF o.phobostype # "link"
    THEN [Log(Run(o), "ERROR", "notlink") EXCEPT !.outcome = "notlink"]
    ELSE SetVisualization(
             AddApproximations(
                 SetType(
                     SetConstraints(
                         AddDynamics(RemoveOld([o EXCEPT !.constraints = MarkOld(@)]),
                                     jointtype, spring, damping, rbOk),
                         jointtype, lower, upper),
                     jointtype),
                 jointtype, ea, sa),
             jointtype)

-----------------------------------------------------------------------------
(* deriveJointState, joints.py 409-427.  The conversions of                *)
(* mathutils.Matrix, for a matrix whose rotation part is diagonal; angles  *)
(* are counted in quarter turns.                                           *)

(* pose.bones[0].matrix_basis: the 4x4 transform the bone is posed with,   *)
(* before constraints are evaluated; here a translation without rotation.  *)
Matrix(loc) ==
    <<<<1, 0, 0, loc[1]>>, <<0, 1, 0, loc[2]>>, <<0, 0, 1, loc[3]>>, <<0, 0, 0, 1>>>>

to_translation(m) == <<m[1][4], m[2][4], m[3][4]>>

Atan2(y, x) ==
    IF y = 0 THEN (IF x < 0 THEN 2 ELSE 0) ELSE IF y > 0 THEN 1 ELSE -1

Abs(n) == IF n < 0 THEN -n ELSE n

(* the two Euler solutions of a matrix with cos(y) # 0; the one with the   *)
(* smaller sum of absolute angles is returned                              *)
to_euler(m) ==
    LET cy == Abs(m[1][1]) + Abs(m[1][2])
        eul1 == <<Atan2(m[2][3], m[3][3]), Atan2(-m[1][3], cy), Atan2(m[1][2], m[1][1])>>
        eul2 == <<Atan2(-m[2][3], -m[3][3]), Atan2(-m[1][3], -cy), Atan2(-m[1][2], -m[1][1])>>
    IN  IF Abs(eul1[1]) + Abs(eul1[2]) + Abs(eul1[3])
               > Abs(eul2[1]) + Abs(eul2[2]) + Abs(eul2[3])
        THEN eul2 ELSE eul1

(* w, x, y, z from the diagonal of the rotation part *)
to_quaternion(m) ==
    <<(1 + m[1][1] + m[2][2] + m[3][3]) \div 4, (1 + m[1][1] - m[2][2] - m[3][3]) \div 4,
      (1 - m[1][1] + m[2][2] - m[3][3]) \div 4, (1 - m[1][1] - m[2][2] + m[3][3]) \div 4>>

(* the state read from the evaluated pose, which the constraints clamp *)
deriveJointStateEvaluated(o) ==
    LET il == getJointConstraint(o, "LIMIT_LOCATION")
        t == to_translation(o.matrix_basis)
        m == IF il = 0 THEN o.matrix_basis
             ELSE Matrix([i \in 1..3 |-> IF o.constraints[il].use_min[i]
                                         THEN o.constraints[il].min[i] ELSE t[i]])
    IN  [matrix |-> m, translation |-> to_translation(m),
         rotation_euler |-> to_euler(m), rotation_quaternion |-> to_quaternion(m)]

deriveJointState(o) ==
    [matrix |-> o.matrix_basis,
     translation |-> to_translation(o.matrix_basis),
     rotation_euler |-> to_euler(o.matrix_basis),
     rotation_quaternion |-> to_quaternion(o.matrix_basis)]

-----------------------------------------------------------------------------
(* createJoint, joints.py 26-131.  The joint dictionary is given by name,  *)
(* type, axis (<<>> when the key is absent), limits (<<>> when the key is  *)
(* absent, else <<the set of keys of joint['limits']>>) with the values    *)
(* lower, upper, effort, velocity, and the set extra of its further        *)
(* top-level keys.  how is "resolved" when the link object is the linkobj  *)
(* argument, the entry of the links dictionary or the single hit of the    *)
(* scene search, and "ambiguous" when the scene search returns a list.     *)

Length2(v) == v[1] * v[1] + v[2] * v[2] + v[3] * v[3]

(* mathutils.Vector.normalized of a vector parallel to a coordinate axis. *)
Normalized(v) == [i \in 1..3 |-> IF v[i] > 0 THEN 1 ELSE IF v[i] < 0 THEN -1 ELSE 0]

(* joints.py 81-83 *)
KeepName(r, joint) ==
    IF joint.name # r.obj.name
    THEN Wrote(r, SetProp(r.obj, "joint/name", joint.name), "name")
    ELSE r

(* joints.py 89-98 *)
SetAxis(r, joint) ==
    IF joint.axis = <<>> THEN r
    ELSE IF Length2(joint.axis[1]) = 0 THEN Log(r, "ERROR", "axis")
    ELSE Wrote(r, [r.obj EXCEPT !.bone = Normalized(joint.axis[1])], "bone")

(* a missing field passed over without a diagnostic *)
StoreLimitSilent(r, joint, param, key) ==
    IF param \in joint.limits[1]
    THEN Wrote(r, SetProp(r.obj, key, IF param = "effort" THEN joint.effort
                                      ELSE joint.velocity), "limits")
    ELSE r

(* joints.py 102-111, one pass of the loop over effort and velocity *)
StoreLimit(r, joint, param, key) ==
    IF param \in joint.limits[1]
    THEN Wrote(r, SetProp(r.obj, key, IF param = "effort" THEN joint.effort
                                      ELSE joint.velocity), "limits")
    ELSE Log(r, "ERROR", param)

(* joints.py 113-123: lower and upper handed to setJointConstraints *)
HasBounds(joint) == joint.limits # <<>> /\ {"lower", "upper"} \subseteq joint.limits[1]
(* the lower bound read whether or not the limits entry holds both bounds *)
LowerOfUnchecked(joint) == joint.lower

LowerOf(joint) == IF HasBounds(joint) THEN joint.lower ELSE DefaultLower
UpperOf(joint) == IF HasBounds(joint) THEN joint.upper ELSE DefaultUpper

(* joints.py 101-123: the properties written and the diagnostics *)
ApplyLimits(r, joint) ==
    LET r2 == IF joint.limits # <<>>
              THEN StoreLimit(StoreLimit(r, joint, "effort", EffortKey),
                              joint, "velocity", SpeedKey)
              ELSE r
    IN  IF HasBounds(joint) THEN r2 ELSE Log(r2, "WARNING", "limits")

(* every key copied, with or without the '$' prefix *)
AddGenericAnyKey(r, joint) ==
    LET r0 == IF "note" \in joint.extra
              THEN Wrote(r, SetProp(r.obj, "joint/note/etc", 7), "extra")
              ELSE r
    IN  IF "$test" \in joint.extra
        THEN LET r1 == Wrote(r0, SetProp(r0.obj, "joint/test/etc", 7), "extra")
             IN  Wrote(r1, SetProp(r1.obj, "joint/test/more", "nested"), "extra")
        ELSE r0

(* joints.py 126-130: '$test' holds {'etc': 7, 'more': {...}}; a nested    *)
(* dictionary is stored as it is.                                          *)
AddGeneric(r, joint) ==
    IF "$test" \in joint.extra
    THEN LET r1 == Wrote(r, SetProp(r.obj, "joint/test/etc", 7), "extra")
         IN  Wrote(r1, SetProp(r1.obj, "joint/test/more", "nested"), "extra")
    ELSE r

(* joints.py 124: the call of setJointConstraints, which leaves spring,    *)
(* damping and the approximations at their defaults; its diagnostics and   *)
(* writes follow those of the caller.                                      *)
Merge(r, s) ==
    [obj |-> s.obj, log |-> r.log \o s.log, writes |-> r.writes \o s.writes,
     outcome |-> s.outcome]

CallSetJointConstraints(r, joint, rbOk) ==
    Merge(r, setJointConstraints(r.obj, joint.type, LowerOf(joint), UpperOf(joint),
                                 0, 0, {}, {}, rbOk))

(* createJoint with the limits stored after the constraints are set *)
createJointLimitsLate(o, joint, how, rbOk) ==
    IF how = "ambiguous"
    THEN [Log(Run(o), "ERROR", "child") EXCEPT !.outcome = "ambiguous"]
    ELSE LET r2 == SetAxis(KeepName(Run(o), joint), joint)
         IN  AddGeneric(ApplyLimits(CallSetJointConstraints(r2, joint, rbOk), joint), joint)

createJoint(o, joint, how, rbOk) ==
    IF how = "ambiguous"
    THEN [Log(Run(o), "ERROR", "child") EXCEPT !.outcome = "ambiguous"]
    ELSE LET r1 == KeepName(Run(o), joint)
             r2 == SetAxis(r1, joint)
             r3 == ApplyLimits(r2, joint)
             r4 == CallSetJointConstraints(r3, joint, rbOk)
         IN  AddGeneric(r4, joint)

-----------------------------------------------------------------------------
(* The state: one object of the scene with its armature bone, whether the  *)
(* scene has a rigid body world (without one                               *)
(* bpy.ops.rigidbody.constraint_add raises RuntimeError), and the record   *)
(* of the last call with the arguments it was given.                       *)

NoProps == [k \in PropKeys |-> <<>>]

NewObject(ptype) ==
    [phobostype |-> ptype, name |-> "link1", props |-> NoProps, constraints |-> <<>>,
     bone |-> <<0, 1, 0>>, custom_shape |-> <<>>, rigid_body |-> <<>>,
     matrix_basis |-> Matrix(Zero3)]

NoJoint ==
    [name |-> "", type |-> "", axis |-> <<>>, limits |-> <<>>, lower |-> 0, upper |-> 0,
     effort |-> 0, velocity |-> 0, extra |-> {}]

NoCall ==
    [op |-> "none", jointtype |-> "", lower |-> 0, upper |-> 0, spring |-> 0,
     damping |-> 0, ea |-> {}, sa |-> {}, joint |-> NoJoint, how |-> "",
     outcome |-> "done", log |-> <<>>, writes |-> <<>>, state |-> <<>>,
     adjust |-> FALSE, returned |-> <<>>]

Init ==
    /\ link \in {NewObject("link"), NewObject("undefined")}
    /\ world \in BOOLEAN
    /\ last = NoCall

(* the record of a call: its arguments and what the run reports *)
Record(call, r) == [call EXCEPT !.outcome = r.outcome, !.log = r.log, !.writes = r.writes]

(* A call of setJointConstraints with the default approximations (None). *)
SpringInputs == {0, 3}

SetJointConstraintsCall ==
    \E jointtype \in JointTypeInputs, lower \in Vals, upper \in Vals,
       spring \in SpringInputs, damping \in SpringInputs :
        LET r == setJointConstraints(link, jointtype, lower, upper, spring, damping,
                                     {}, {}, world)
        IN  /\ link' = r.obj
            /\ last' = Record([NoCall EXCEPT !.op = "setJointConstraints",
                                             !.jointtype = jointtype, !.lower = lower,
                                             !.upper = upper, !.spring = spring,
                                             !.damping = damping], r)
            /\ UNCHANGED world

Next == SetJointConstraintsCall

Spec == Init /\ [][Next]_vars

-----------------------------------------------------------------------------
(* Calls of createJoint.  The joint dictionaries are variations of one     *)
(* revolute joint with complete limits: every type with every pair of      *)
(* bounds, every type with every shape of the limits entry (the fields     *)
(* lower and upper of the record are the values of joint['limits'] only    *)
(* where the entry has these keys), and every combination of name, axis,   *)
(* extra keys and presence of limits.                                      *)

LimitKeys == {"lower", "upper", "effort", "velocity"}
LimitInputs == {<<>>, <<LimitKeys>>, <<{"lower", "upper", "effort"}>>,
                <<{"lower", "upper", "velocity"}>>, <<{"lower", "effort", "velocity"}>>,
                <<{}>>}
AxisInputs == {<<>>, <<Zero3>>, <<<<2, 0, 0>>>>}
ExtraInputs == {{}, {"$test", "note"}}

BaseJoint ==
    [name |-> "joint1", type |-> "revolute", axis |-> <<>>, limits |-> <<LimitKeys>>,
     lower |-> DefaultLower, upper |-> DefaultUpper, effort |-> 50, velocity |-> 2, extra |-> {}]

StructureInputs ==
    {[BaseJoint EXCEPT !.name = n, !.axis = a, !.extra = e, !.limits = s] :
        n \in {"link1", "joint1"}, a \in AxisInputs, e \in ExtraInputs,
        s \in {<<>>, <<LimitKeys>>}}

JointInputs ==
    {[BaseJoint EXCEPT !.type = t, !.lower = l, !.upper = u] :
        t \in JointTypeInputs, l \in Vals, u \in Vals}
    \cup {[BaseJoint EXCEPT !.type = t, !.limits = s, !.lower = MaxVal, !.upper = 0] :
        t \in JointTypeInputs, s \in LimitInputs}
    \cup StructureInputs

Resolutions == {"resolved", "ambiguous"}

CreateJointCall ==
    \E joint \in JointInputs, how \in Resolutions :
        /\ how = "ambiguous" => joint \in StructureInputs
        /\ LET r == createJoint(link, joint, how, world)
           IN  /\ link' = r.obj
               /\ last' = Record([NoCall EXCEPT !.op = "createJoint", !.joint = joint,
                                                !.how = how, !.jointtype = joint.type,
                                                !.lower = LowerOf(joint),
                                                !.upper = UpperOf(joint)], r)
               /\ UNCHANGED world

NextCreate == CreateJointCall

(* createJoint passes no spring or damping, so the rigid body world is     *)
(* never consulted on this path.                                           *)
InitCreate ==
    /\ link \in {NewObject("link"), NewObject("undefined")}
    /\ world = TRUE
    /\ last = NoCall

SpecCreate == InitCreate /\ [][NextCreate]_vars

-----------------------------------------------------------------------------
(* Calls of setJointConstraints that name the approximations and a        *)
(* nonzero spring and leave lower, upper and damping at their defaults of  *)
(* 0.  Of the two approximation arguments at most one is ill-formed.       *)

ApproximationInputs ==
    {{}, {"function", "coefficients"}, {"function"}, {"coefficients"},
     {"function", "coefficients", "comment"}}

WellFormedInputs == {{}, {"function", "coefficients"}}

SetJointConstraintsApproxCall ==
    \E jointtype \in JointTypeInputs, spring \in SpringInputs \ {0},
       ea \in ApproximationInputs, sa \in ApproximationInputs :
        /\ ea \in WellFormedInputs \/ sa \in WellFormedInputs
        /\ LET r == setJointConstraints(link, jointtype, 0, 0, spring, 0, ea, sa, world)
           IN  /\ link' = r.obj
               /\ last' = Record([NoCall EXCEPT !.op = "setJointConstraints",
                                                !.jointtype = jointtype,
                                                !.spring = spring, !.ea = ea, !.sa = sa], r)
               /\ UNCHANGED world

NextApprox == SetJointConstraintsApproxCall

SpecApprox == Init /\ [][NextApprox]_vars

-----------------------------------------------------------------------------
(* Reads of the joint state and the joint type of a link that is posed in   *)
(* one of a few ways and given its constraint records by                    *)
(* setJointConstraints with the default bounds or by the builders called on *)
(* their own.                                                               *)

PoseInputs == {Matrix(Zero3), Matrix(<<0, 1, 0>>), Matrix(<<1, 0, 0>>), Matrix(<<0, -1, 1>>)}

InitState ==
    /\ link \in {[NewObject("link") EXCEPT !.matrix_basis = m] : m \in PoseInputs}
    /\ world = TRUE
    /\ last = NoCall

SetJointTypeCall ==
    \E jointtype \in JointTypeInputs :
        LET r == setJointConstraints(link, jointtype, DefaultLower, DefaultUpper, 0, 0,
                                     {}, {}, world)
        IN  /\ link' = r.obj
            /\ last' = Record([NoCall EXCEPT !.op = "setJointConstraints",
                                             !.jointtype = jointtype,
                                             !.lower = DefaultLower,
                                             !.upper = DefaultUpper], r)
            /\ UNCHANGED world

DeriveJointStateCall ==
    /\ last' = [NoCall EXCEPT !.op = "deriveJointState", !.state = <<deriveJointState(link)>>]
    /\ UNCHANGED <<link, world>>

(* Direct calls of the constraint builders, joints.py 430-600: two records *)
(* are appended to those the bone already has; nothing is removed and no    *)
(* joint/* property is written.  MaxRecords caps the length of the list.    *)
MaxRecords == 4

RoomForBuilder == Len(link.constraints) + 2 <= MaxRecords

BuilderCall(name, lower, upper, o) ==
    /\ RoomForBuilder
    /\ link' = o
    /\ last' = Record([NoCall EXCEPT !.op = name, !.lower = lower, !.upper = upper],
                      Wrote(Run(link), o, "constraints"))
    /\ UNCHANGED world

(* the bounds handed to a builder: equal, the default pair, lower above upper *)
BuilderBounds == {<<0, 0>>, <<DefaultLower, DefaultUpper>>, <<MaxVal, 0>>}

SetRevoluteCall ==
    \E b \in BuilderBounds :
        BuilderCall("set_revolute", b[1], b[2], set_revolute(link, b[1], b[2]))

SetContinuousCall == BuilderCall("set_continuous", 0, 0, set_continuous(link))

SetPrismaticCall ==
    \E b \in BuilderBounds :
        BuilderCall("set_prismatic", b[1], b[2], set_prismatic(link, b[1], b[2]))

SetFixedCall == BuilderCall("set_fixed", 0, 0, set_fixed(link))

SetPlanarCall == BuilderCall("set_planar", 0, 0, set_planar(link))

(* The decorator @validate('joint_type') of line 385.  Its code is in       *)
(* phobos.utils.validation, outside joints.py, so what it does is known     *)
(* only as far as the documentation of deriveJointType (389-396) says: when *)
(* the stored joint/type does not match the constraints a warning is        *)
(* logged, and with adjust the stored type is overwritten with the derived  *)
(* one.  Whether the warning is logged with logging left at False, and      *)
(* whether the decorator acts at all, cannot be read from joints.py: the    *)
(* outcomes are every combination of the documented effects, from none of   *)
(* them (the decorator hands the call through) to both.                     *)
validate_joint_type(o, adjust) ==
    LET derived == getJointType(o).jtype
        differs == o.props["joint/type"] # <<derived>>
        quiet   == {Run(o)} \cup
                   (IF differs /\ adjust
                    THEN {Wrote(Run(o), SetProp(o, "joint/type", derived), "type")}
                    ELSE {})
    IN  quiet \cup (IF differs
                    THEN {[r EXCEPT !.log = <<<<"WARNING", "joint_type">>>>] : r \in quiet}
                    ELSE {})

(* deriveJointType(link, adjust=adjust), joints.py 385-406: the decorator,  *)
(* then the body (403-405), which returns what getJointType returns and     *)
(* reads neither adjust nor logging nor errors.                             *)
DeriveJointTypeCall ==
    \E adjust \in BOOLEAN :
        \E r \in validate_joint_type(link, adjust) :
            /\ link' = r.obj
            /\ last' = Record([NoCall EXCEPT !.op = "deriveJointType", !.adjust = adjust,
                                             !.returned = <<deriveJointType(r.obj)>>], r)
            /\ UNCHANGED world

NextState ==
    \/ SetJointTypeCall
    \/ SetRevoluteCall
    \/ SetContinuousCall
    \/ SetPrismaticCall
    \/ SetFixedCall
    \/ SetPlanarCall
    \/ DeriveJointStateCall
    \/ DeriveJointTypeCall

SpecState == InitState /\ [][NextState]_vars

-----------------------------------------------------------------------------
(* Reads of the joint type and of the axis and limits of a link whose       *)
(* constraint records are any the bone can carry (the records are edited    *)
(* in Blender as well as written by the builders): no or one record of      *)
(* each kind, every combination of enable flags, and for every axis a       *)
(* range that is (0, 0) or the axis's own wide range; and of a link as      *)
(* each builder leaves it.                                                  *)

Flags == {<<a, b, c>> : a \in BOOLEAN, b \in BOOLEAN, c \in BOOLEAN}

(* per axis (0, 0) or the wide range: x (-1, 0), y (0, MaxVal), z (-1, MaxVal) *)
WideMin == <<DefaultLower, 0, DefaultLower>>
WideMax == <<0, MaxVal, MaxVal>>
Ranges == {[min |-> [i \in 1..3 |-> IF w[i] THEN WideMin[i] ELSE 0],
            max |-> [i \in 1..3 |-> IF w[i] THEN WideMax[i] ELSE 0]] : w \in Flags}

LocationInputs ==
    {<<>>} \cup {<<[NewConstraint("LIMIT_LOCATION") EXCEPT !.use_min = lo, !.use_max = hi,
                                                          !.min = r.min, !.max = r.max]>> :
                     lo \in Flags, hi \in Flags, r \in Ranges}

RotationInputs ==
    {<<>>} \cup {<<[NewConstraint("LIMIT_ROTATION") EXCEPT !.use_limit = f,
                                                          !.min = r.min, !.max = r.max]>> :
                     f \in Flags, r \in Ranges}

BuiltInputs ==
    {ApplyType(NewObject("link"), t, DefaultLower, DefaultUpper) : t \in KnownTypes}

InitClassify ==
    /\ link \in {[NewObject("link") EXCEPT !.constraints = l \o r] :
                     l \in LocationInputs, r \in RotationInputs} \cup BuiltInputs
    /\ world = TRUE
    /\ last = NoCall

GetJointTypeCall ==
    /\ last' = [NoCall EXCEPT !.op = "getJointType", !.returned = <<getJointType(link)>>]
    /\ UNCHANGED <<link, world>>

(* the call ends with the JointTypeError exception or returns (axis, limits) *)
GetJointConstraintsCall ==
    /\ last' = [NoCall EXCEPT !.op = "getJointConstraints",
                              !.outcome = IF getJointConstraints(link).raised
                                          THEN "JointTypeError" ELSE "done",
                              !.returned = IF getJointConstraints(link).raised THEN <<>>
                                           ELSE <<getJointConstraints(link)>>]
    /\ UNCHANGED <<link, world>>

NextClassify == GetJointTypeCall \/ GetJointConstraintsCall

SpecClassify == InitClassify /\ [][NextClassify]_vars

-----------------------------------------------------------------------------
(* Properties *)

Location(o) == o.constraints[getJointConstraint(o, "LIMIT_LOCATION")]
Rotation(o) == o.constraints[getJointConstraint(o, "LIMIT_ROTATION")]
HasBoth(o) ==
    /\ getJointConstraint(o, "LIMIT_LOCATION") # 0
    /\ getJointConstraint(o, "LIMIT_ROTATION") # 0

(* the last call was setJointConstraints on a link and returned normally *)
SetDone == last.op = "setJointConstraints" /\ last.outcome = "done"

WellDefinedTypes == {"fixed", "revolute", "continuous", "prismatic", "planar"}

(* C1: after setJointConstraints(link, t, lower, upper, 0, 0) with t one of *)
(* fixed, revolute, continuous, prismatic, planar and lower < upper, the    *)
(* type derived from the link's constraints is t.                           *)
C1_RoundTrip ==
    (/\ SetDone
     /\ last.jointtype \in WellDefinedTypes
     /\ last.lower < last.upper
     /\ last.spring = 0 /\ last.damping = 0)
    => deriveJointType(link).jtype = last.jointtype

C1_Witness ==
    /\ SetDone
    /\ last.jointtype = "planar"
    /\ last.lower < last.upper
    /\ last.spring = 0 /\ last.damping = 0
    /\ deriveJointType(link).jtype = "planar"

ZeroWidthPrismatic == SetDone /\ last.jointtype = "prismatic" /\ last.lower = last.upper

TyFlagsCleared(o) ==
    /\ getJointConstraint(o, "LIMIT_LOCATION") # 0
    /\ ~Location(o).use_min[2]
    /\ ~Location(o).use_max[2]

(* C2 as stated: a prismatic joint built with lower == upper has both Ty    *)
(* enable flags cleared, and reading it back reports the under-defined      *)
(* joint error or the floating fallback, not a prismatic joint with limits. *)
C2_AsStated ==
    ZeroWidthPrismatic
    => /\ TyFlagsCleared(link)
       /\ \/ getJointConstraints(link).raised
          \/ deriveJointType(link).jtype = "floating"

(* C2 amended: a prismatic joint built with lower == upper == v has both Ty *)
(* enable flags cleared and Ty's range left at (0, 0); it still derives as  *)
(* prismatic, and getJointConstraints returns the bone axis with limits     *)
(* (0, 0) without raising.                                                  *)
C2_ZeroWidthPrismatic ==
    ZeroWidthPrismatic
    => /\ TyFlagsCleared(link)
       /\ Location(link).min[2] = 0 /\ Location(link).max[2] = 0
       /\ deriveJointType(link).jtype = "prismatic"
       /\ getJointConstraints(link) =
              [raised |-> FALSE, axis |-> link.bone, limits |-> <<0, 0>>]

C2_Witness ==
    /\ ZeroWidthPrismatic
    /\ last.lower = MaxVal
    /\ TyFlagsCleared(link)
    /\ getJointConstraints(link).limits = <<0, 0>>

CountOf(o, ctype) == Cardinality({i \in 1..Len(o.constraints) : o.constraints[i].type = ctype})

(* C3: after a setJointConstraints call on a link, every constraint record  *)
(* of the link was written by that call: none existed before it, there is   *)
(* at most one LIMIT_LOCATION and one LIMIT_ROTATION, and there is none     *)
(* when the type is floating or not a known type.                           *)
C3_WholesaleReplacement ==
    SetDone
    => /\ \A i \in 1..Len(link.constraints) : ~link.constraints[i].old
       /\ CountOf(link, "LIMIT_LOCATION") <= 1
       /\ CountOf(link, "LIMIT_ROTATION") <= 1
       /\ last.jointtype \notin WellDefinedTypes => link.constraints = <<>>

(* a call that found records of an earlier call and wrote its own *)
C3_Witness ==
    /\ SetDone
    /\ last.writes[1] = "remove"
    /\ Len(link.constraints) = 2
    /\ \A i \in 1..2 : ~link.constraints[i].old

(* what the claims call the mutable part of a link: its constraint records *)
(* (apart from the history field), its bone orientation, its joint/*       *)
(* properties                                                              *)
Records(o) == [i \in 1..Len(o.constraints) |-> [o.constraints[i] EXCEPT !.old = FALSE]]
SameConstraints(o1, o2) == Records(o1) = Records(o2)
SameMetadata(o1, o2) == o1.props = o2.props

(* C4 as stated: a createJoint call whose axis entry has length 0 leaves    *)
(* the link's constraints, bone orientation and joint/* properties as they  *)
(* were before the call.                                                    *)
C4_AsStated ==
    [][(/\ last'.op = "createJoint" /\ last'.how = "resolved"
        /\ link.phobostype = "link"
        /\ last'.joint.axis = <<Zero3>>)
       => /\ SameConstraints(link, link')
          /\ SameMetadata(link, link')
          /\ link'.bone = link.bone]_vars

(* C6 as stated: a createJoint call that ends without applying the joint    *)
(* (ambiguous child lookup, or a target that is not a link) leaves the      *)
(* target's constraints and joint/* properties as they were.                *)
C6_AsStated ==
    [][(last'.op = "createJoint" /\ last'.outcome \in {"ambiguous", "notlink"})
       => SameConstraints(link, link') /\ SameMetadata(link, link')]_vars

ClaimedStages == {"remove", "constraints", "dynamics", "type", "limits", "approximation",
                  "visualization"}

ClaimedRank(stage) ==
    CASE stage \in {"remove", "constraints"} -> 1
      [] stage = "dynamics" -> 2
      [] stage = "type" -> 3
      [] stage \in {"limits", "approximation"} -> 4
      [] stage = "visualization" -> 5

SourceRank(stage) ==
    CASE stage = "name" -> 1
      [] stage = "bone" -> 2
      [] stage = "limits" -> 3
      [] stage = "remove" -> 4
      [] stage = "dynamics" -> 5
      [] stage = "constraints" -> 6
      [] stage = "type" -> 7
      [] stage = "approximation" -> 8
      [] stage = "visualization" -> 9
      [] stage = "extra" -> 10

(* C5 as stated: in one createJoint call the writes come in the order       *)
(* constraint records, dynamics, joint/type, limits and approximation,      *)
(* visualization resource.                                                  *)
C5_AsStated ==
    last.op = "createJoint"
    => \A i, j \in 1..Len(last.writes) :
          (i < j /\ last.writes[i] \in ClaimedStages /\ last.writes[j] \in ClaimedStages)
          => ClaimedRank(last.writes[i]) <= ClaimedRank(last.writes[j])

(* C5 amended: in one createJoint call the writes come in the order         *)
(* joint/name, bone orientation, limits (joint/maxEffort, joint/maxSpeed),  *)
(* removal of the old constraint records, new constraint records,           *)
(* joint/type, visualization resource, extra properties; dynamics and       *)
(* approximation properties are not written by createJoint.                 *)
C5_WriteOrder ==
    last.op = "createJoint"
    => /\ \A i, j \in 1..Len(last.writes) :
             i < j => SourceRank(last.writes[i]) <= SourceRank(last.writes[j])
       /\ \A i \in 1..Len(last.writes) : last.writes[i] \notin {"dynamics", "approximation"}

C5_Witness ==
    /\ last.op = "createJoint"
    /\ last.writes = <<"name", "bone", "limits", "limits", "remove", "constraints", "type",
                       "visualization", "extra", "extra">>

(* C7: when the rigid body constraint cannot be created, setJointConstraints *)
(* still writes the dynamics properties, and the link, the writes and the    *)
(* outcome are those of the same call with the constraint created, apart     *)
(* from the rigid body constraint itself.                                    *)
C7_SpringFailure ==
    [][(/\ last'.op = "setJointConstraints"
        /\ link.phobostype = "link"
        /\ ~world
        /\ last'.jointtype \in {"revolute", "prismatic"}
        /\ (last'.spring # 0 \/ last'.damping # 0))
       => LET ok == setJointConstraints(link, last'.jointtype, last'.lower, last'.upper,
                                        last'.spring, last'.damping, last'.ea, last'.sa,
                                        TRUE)
          IN  /\ link' = [ok.obj EXCEPT !.rigid_body = link.rigid_body]
              /\ last'.writes = ok.writes
              /\ last'.outcome = ok.outcome
              /\ last'.log = <<<<"ERROR", "rigidbody">>>> \o ok.log
              /\ link'.props["joint/dynamics/springStiffness"] = <<last'.spring>>
              /\ link'.props["joint/dynamics/springDamping"] = <<last'.damping>>
              /\ link'.props["joint/type"] = <<last'.jointtype>>]_vars

C7_Witness ==
    /\ SetDone
    /\ ~world
    /\ last.jointtype = "revolute"
    /\ last.spring # 0
    /\ last.ea = {"function", "coefficients"}
    /\ link.rigid_body = <<>>
    /\ link.props["joint/dynamics/springStiffness"] = <<last.spring>>
    /\ link.props["joint/maxeffort_coefficients"] = <<Coefficients>>
    /\ HasBoth(link)
    /\ link.custom_shape = <<"revolute">>

LocLocked(c, i) == c.use_min[i] /\ c.use_max[i] /\ c.min[i] = 0 /\ c.max[i] = 0
RotLocked(c, i) == c.use_limit[i] /\ c.min[i] = 0 /\ c.max[i] = 0

(* C8: createJoint of a revolute joint with limits lower, upper, effort,    *)
(* velocity on a link leaves Tx, Ty, Tz and Rx, Rz enabled and locked to    *)
(* (0, 0), Ry enabled with range (lower, upper), joint/type "revolute",     *)
(* joint/maxEffort the effort and joint/maxSpeed the velocity.              *)
C8_RevoluteApply ==
    (/\ last.op = "createJoint" /\ last.how = "resolved"
     /\ link.phobostype = "link"
     /\ last.joint.type = "revolute"
     /\ last.joint.limits = <<LimitKeys>>)
    => /\ Len(link.constraints) = 2 /\ HasBoth(link)
       /\ \A i \in 1..3 : LocLocked(Location(link), i)
       /\ RotLocked(Rotation(link), 1) /\ RotLocked(Rotation(link), 3)
       /\ Rotation(link).use_limit[2]
       /\ Rotation(link).min[2] = last.joint.lower
       /\ Rotation(link).max[2] = last.joint.upper
       /\ link.props["joint/type"] = <<"revolute">>
       /\ link.props[EffortKey] = <<last.joint.effort>>
       /\ link.props[SpeedKey] = <<last.joint.velocity>>

C8_Witness ==
    /\ last.op = "createJoint" /\ last.how = "resolved"
    /\ link.phobostype = "link"
    /\ last.joint.type = "revolute"
    /\ last.joint.limits = <<LimitKeys>>
    /\ last.joint.lower = DefaultLower /\ last.joint.upper = MaxVal
    /\ Rotation(link).min[2] = DefaultLower /\ Rotation(link).max[2] = MaxVal
    /\ link.props[EffortKey] = <<50>>

(* C9: a prismatic joint built with lower # upper has the three rotational  *)
(* axes and Tx, Tz enabled and locked to (0, 0), and Ty enabled (min and    *)
(* max flag) with range (lower, upper).                                     *)
C9_PrismaticBuild ==
    (SetDone /\ last.jointtype = "prismatic" /\ last.lower # last.upper)
    => /\ Len(link.constraints) = 2 /\ HasBoth(link)
       /\ \A i \in 1..3 : RotLocked(Rotation(link), i)
       /\ LocLocked(Location(link), 1) /\ LocLocked(Location(link), 3)
       /\ Location(link).use_min[2] /\ Location(link).use_max[2]
       /\ Location(link).min[2] = last.lower
       /\ Location(link).max[2] = last.upper

C9_Witness ==
    /\ SetDone /\ last.jointtype = "prismatic"
    /\ last.lower = MaxVal /\ last.upper = 0
    /\ Location(link).min[2] = MaxVal /\ Location(link).max[2] = 0

(* C10: a continuous joint has Tx, Ty, Tz, Rx, Rz enabled and locked to     *)
(* (0, 0) and Ry without enable flag and with its range untouched (0, 0),   *)
(* whatever lower and upper were passed.                                    *)
C10_ContinuousBuild ==
    (SetDone /\ last.jointtype = "continuous")
    => /\ Len(link.constraints) = 2 /\ HasBoth(link)
       /\ \A i \in 1..3 : LocLocked(Location(link), i)
       /\ RotLocked(Rotation(link), 1) /\ RotLocked(Rotation(link), 3)
       /\ ~Rotation(link).use_limit[2]
       /\ Rotation(link).min[2] = 0 /\ Rotation(link).max[2] = 0

C10_Witness ==
    /\ SetDone /\ last.jointtype = "continuous"
    /\ last.lower = DefaultLower /\ last.upper = MaxVal
    /\ ~Rotation(link).use_limit[2]
    /\ Rotation(link).use_limit[1]

(* C11: a planar joint has, of the translational axes, only Ty enabled    *)
(* (min and max flag) with range (0, 0), Tx and Tz without any enable flag, *)
(* and the three rotational axes enabled and locked to (0, 0).              *)
C11_PlanarBuild ==
    (SetDone /\ last.jointtype = "planar")
    => /\ Len(link.constraints) = 2 /\ HasBoth(link)
       /\ LocLocked(Location(link), 2)
       /\ \A i \in {1, 3} : ~Location(link).use_min[i] /\ ~Location(link).use_max[i]
       /\ \A i \in 1..3 : RotLocked(Rotation(link), i)

C11_Witness ==
    /\ SetDone /\ last.jointtype = "planar"
    /\ last.lower = MaxVal /\ last.upper = DefaultLower
    /\ Location(link).use_min = <<FALSE, TRUE, FALSE>>
    /\ Rotation(link).use_limit = TTT

(* C12: a fixed joint has all three translational and all three rotational *)
(* axes enabled and locked to (0, 0), derives as fixed with no free axis,   *)
(* whatever lower, upper, spring and damping were passed.                   *)
C12_FixedBuild ==
    (SetDone /\ last.jointtype = "fixed")
    => /\ Len(link.constraints) = 2 /\ HasBoth(link)
       /\ \A i \in 1..3 : LocLocked(Location(link), i) /\ RotLocked(Rotation(link), i)
       /\ Count3(ResolveLocked(Location(link))) = 3
       /\ Count3(ActiveRot(Rotation(link))) = 0
       /\ deriveJointType(link).jtype = "fixed"

C12_Witness ==
    /\ SetDone /\ last.jointtype = "fixed"
    /\ last.lower = DefaultLower /\ last.upper = MaxVal
    /\ last.spring # 0 /\ last.damping # 0
    /\ \A i \in 1..3 : LocLocked(Location(link), i) /\ RotLocked(Rotation(link), i)

(* C13: a setJointConstraints call on a link with type floating or with a  *)
(* type that is not one of the six known names leaves the link without any  *)
(* constraint record, and the link derives as floating; the call with the   *)
(* unknown type leaves the constraints, the bone, the rigid body constraint *)
(* and every property other than joint/type as the call with floating       *)
(* does, and its diagnostics are those of floating followed by one warning. *)
C13_FloatingAndUnknown ==
    [][(/\ last'.op = "setJointConstraints"
        /\ link.phobostype = "link"
        /\ last'.jointtype \notin WellDefinedTypes)
       => LET f == setJointConstraints(link, "floating", last'.lower, last'.upper,
                                       last'.spring, last'.damping, last'.ea, last'.sa,
                                       world)
          IN  /\ link'.constraints = <<>>
              /\ deriveJointType(link').jtype = "floating"
              /\ last'.outcome = "done"
              /\ link'.constraints = f.obj.constraints
              /\ link'.bone = f.obj.bone
              /\ link'.rigid_body = f.obj.rigid_body
              /\ \A k \in PropKeys \ {"joint/type"} : link'.props[k] = f.obj.props[k]
              /\ last'.log = IF last'.jointtype = "floating" THEN f.log
                             ELSE f.log \o <<<<"WARNING", "type">>>>]_vars

(* an unknown type applied to a link that carried a revolute joint *)
C13_Witness ==
    /\ SetDone
    /\ last.jointtype = "ball"
    /\ last.writes[1] = "remove"
    /\ link.constraints = <<>>
    /\ last.log = <<<<"WARNING", "type">>>>
    /\ link.props["joint/type"] = <<"ball">>
    /\ deriveJointType(link).jtype = "floating"

(* createJoint ran on a link it resolved *)
CreateDone == last.op = "createJoint" /\ last.how = "resolved" /\ last.outcome = "done"

CountLog(entry) == Cardinality({i \in 1..Len(last.log) : last.log[i] = entry})

(* the constraint records a builder leaves for the given type and bounds *)
Built(jointtype, lower, upper) ==
    Records(ApplyType([link EXCEPT !.constraints = <<>>], jointtype, lower, upper))

(* C14: createJoint of a joint without a limits entry logs one warning and  *)
(* builds the constraints with lower = -1e-5 and upper = 1e-5; a revolute   *)
(* joint ends with Tx, Ty, Tz, Rx, Rz locked to (0, 0) and Ry enabled with  *)
(* range (-1e-5, 1e-5).                                                     *)
C14_MissingLimits ==
    (CreateDone /\ last.joint.limits = <<>>)
    => /\ CountLog(<<"WARNING", "limits">>) = 1
       /\ Records(link) = Built(last.joint.type, DefaultLower, DefaultUpper)
       /\ last.joint.type = "revolute"
          => /\ Len(link.constraints) = 2 /\ HasBoth(link)
             /\ \A i \in 1..3 : LocLocked(Location(link), i)
             /\ RotLocked(Rotation(link), 1) /\ RotLocked(Rotation(link), 3)
             /\ Rotation(link).use_limit[2]
             /\ Rotation(link).min[2] = DefaultLower
             /\ Rotation(link).max[2] = DefaultUpper

C14_Witness ==
    /\ CreateDone /\ last.joint.limits = <<>>
    /\ last.joint.type = "revolute"
    /\ last.joint.lower = MaxVal /\ last.joint.upper = 0
    /\ Rotation(link).min[2] = DefaultLower /\ Rotation(link).max[2] = DefaultUpper
    /\ last.log = <<<<"WARNING", "limits">>>>

(* the keys of a limits entry that lacks effort or velocity *)
IncompleteLimits ==
    /\ CreateDone
    /\ last.joint.limits # <<>>
    /\ ~({"effort", "velocity"} \subseteq last.joint.limits[1])

(* C15: createJoint of a joint whose limits entry lacks effort or velocity  *)
(* logs one error for each of the two that is missing and none for one      *)
(* that is present, stores the one that is present under joint/maxEffort    *)
(* or joint/maxSpeed, and builds the constraints with the lower and upper   *)
(* of the entry, or with (-1e-5, 1e-5) and one warning when the entry lacks *)
(* lower or upper.                                                          *)
C15_IncompleteLimits ==
    IncompleteLimits
    => LET keys == last.joint.limits[1]
           bounds == {"lower", "upper"} \subseteq keys
       IN  /\ CountLog(<<"ERROR", "effort">>) = IF "effort" \in keys THEN 0 ELSE 1
           /\ CountLog(<<"ERROR", "velocity">>) = IF "velocity" \in keys THEN 0 ELSE 1
           /\ "effort" \in keys => link.props[EffortKey] = <<last.joint.effort>>
           /\ "velocity" \in keys => link.props[SpeedKey] = <<last.joint.velocity>>
           /\ CountLog(<<"WARNING", "limits">>) = IF bounds THEN 0 ELSE 1
           /\ Records(link) = Built(last.joint.type,
                                    IF bounds THEN last.joint.lower ELSE DefaultLower,
                                    IF bounds THEN last.joint.upper ELSE DefaultUpper)
           /\ link.props["joint/type"] = <<last.joint.type>>

(* effort given, velocity missing, bounds given *)
C15_Witness ==
    /\ IncompleteLimits
    /\ last.joint.limits = <<{"lower", "upper", "effort"}>>
    /\ last.joint.type = "prismatic"
    /\ last.log = <<<<"ERROR", "velocity">>>>
    /\ link.props[EffortKey] = <<50>>
    /\ Location(link).min[2] = MaxVal /\ Location(link).max[2] = 0

ApproximationTypes == {"revolute", "continuous", "prismatic"}
Kinds == {"effort", "speed"}
Given(call, kind) == IF kind = "effort" THEN call.ea ELSE call.sa
FunctionKey(kind) == "joint/max" \o kind \o "_approximation"
CoefficientsKey(kind) == "joint/max" \o kind \o "_coefficients"

(* C16 as stated: a setJointConstraints call of a type that takes           *)
(* approximations, given an approximation that lacks 'function' or          *)
(* 'coefficients', logs an error for it, returns normally and leaves        *)
(* joint/max*_approximation and joint/max*_coefficients of that kind as     *)
(* they were.                                                               *)
C16_AsStated ==
    [][\A kind \in Kinds :
          (/\ last'.op = "setJointConstraints"
           /\ link.phobostype = "link"
           /\ last'.jointtype \in ApproximationTypes
           /\ Given(last', kind) # {}
           /\ ~({"function", "coefficients"} \subseteq Given(last', kind)))
          => /\ last'.outcome = "done"
             /\ \E i \in 1..Len(last'.log) : last'.log[i] = <<"ERROR", "max" \o kind \o "_approximation">>
             /\ link'.props[FunctionKey(kind)] = link.props[FunctionKey(kind)]
             /\ link'.props[CoefficientsKey(kind)] = link.props[CoefficientsKey(kind)]]_vars

(* C17 as stated: a setJointConstraints call given an approximation that    *)
(* contains 'function' and 'coefficients' writes both properties of that    *)
(* kind when the type is revolute, continuous or prismatic, and leaves both *)
(* as they were for any other type.                                         *)
C17_AsStated ==
    [][\A kind \in Kinds :
          (/\ last'.op = "setJointConstraints"
           /\ link.phobostype = "link"
           /\ {"function", "coefficients"} \subseteq Given(last', kind))
          => IF last'.jointtype \in ApproximationTypes
             THEN /\ link'.props[FunctionKey(kind)] = <<FunctionId>>
                  /\ link'.props[CoefficientsKey(kind)] = <<Coefficients>>
             ELSE /\ link'.props[FunctionKey(kind)] = link.props[FunctionKey(kind)]
                  /\ link'.props[CoefficientsKey(kind)] = link.props[CoefficientsKey(kind)]]_vars

DynamicsGate(call) ==
    call.jointtype \in {"revolute", "prismatic"} /\ (call.spring # 0 \/ call.damping # 0)

(* C18: a setJointConstraints call on a link writes                         *)
(* joint/dynamics/springStiffness = spring and joint/dynamics/springDamping *)
(* = damping when the type is revolute or prismatic and spring or damping   *)
(* is nonzero, and in every other case writes no joint/dynamics/* property. *)
C18_DynamicsGating ==
    [][(last'.op = "setJointConstraints" /\ link.phobostype = "link")
       => IF DynamicsGate(last')
          THEN /\ link'.props["joint/dynamics/springStiffness"] = <<last'.spring>>
               /\ link'.props["joint/dynamics/springDamping"] = <<last'.damping>>
               /\ \E i \in 1..Len(last'.writes) : last'.writes[i] = "dynamics"
          ELSE /\ \A k \in DynamicsKeys : link'.props[k] = link.props[k]
               /\ \A i \in 1..Len(last'.writes) : last'.writes[i] # "dynamics"]_vars

(* damping alone on a prismatic joint *)
C18_Witness ==
    /\ SetDone
    /\ last.jointtype = "prismatic"
    /\ last.spring = 0 /\ last.damping # 0
    /\ link.props["joint/dynamics/springStiffness"] = <<0>>
    /\ link.props["joint/dynamics/springDamping"] = <<last.damping>>

(* C19: deriveJointState leaves the link (pose, constraints, properties)   *)
(* as it was and returns normally whatever the joint type of the link; its  *)
(* result is the one a link without constraints and properties has in the   *)
(* same pose, and a second call on the unchanged link returns the same      *)
(* result as the first.                                                     *)
C19_DeriveJointState ==
    [][last'.op = "deriveJointState"
       => /\ link' = link
          /\ last'.outcome = "done"
          /\ last'.state =
                 <<deriveJointState([NewObject("link") EXCEPT
                                        !.matrix_basis = link.matrix_basis])>>
          /\ last.op = "deriveJointState" => last'.state = last.state]_vars

(* a displaced link that carries a fixed joint *)
C19_Witness ==
    /\ last.op = "deriveJointState"
    /\ deriveJointType(link).jtype = "fixed"
    /\ link.props["joint/type"] = <<"fixed">>
    /\ last.state[1].translation = <<0, -1, 1>>
    /\ last.state[1].rotation_quaternion = <<1, 0, 0, 0>>

(* C20: a createJoint call that resolved its link stores, for the key      *)
(* '$test' of the joint dictionary with the value {'etc': 7, 'more': {...}}, *)
(* joint/test/etc = 7 and joint/test/more = the nested dictionary as it is; *)
(* it writes nothing under joint/test when there is no '$test' key, nothing *)
(* for the key 'note' that has no '$' prefix, and nothing for the keys of   *)
(* the nested dictionary.                                                   *)
C20_ExtraProperties ==
    [][(last'.op = "createJoint" /\ last'.how = "resolved")
       => /\ IF "$test" \in last'.joint.extra
             THEN /\ link'.props["joint/test/etc"] = <<7>>
                  /\ link'.props["joint/test/more"] = <<"nested">>
             ELSE \A k \in ExtraKeys : link'.props[k] = link.props[k]
          /\ \A k \in UncopiedKeys : link'.props[k] = <<>>]_vars

C20_Witness ==
    /\ last.op = "createJoint" /\ last.how = "resolved"
    /\ last.joint.extra = {"$test", "note"}
    /\ link.props["joint/test/etc"] = <<7>>
    /\ link.props["joint/test/more"] = <<"nested">>
    /\ link.props["joint/note/etc"] = <<>>

(* the records the classifier reads, and its two counts as the source      *)
(* computes them: ncloc over use_min and min == max (352-357, 365), ncrot   *)
(* over the limit flags (366)                                               *)
HasLocation(o) == getJointConstraint(o, "LIMIT_LOCATION") # 0
HasRotation(o) == getJointConstraint(o, "LIMIT_ROTATION") # 0
Ncloc(o) ==
    Cardinality({i \in 1..3 : Location(o).use_min[i] /\ Location(o).min[i] = Location(o).max[i]})
Ncrot(o) == Cardinality({i \in 1..3 : Rotation(o).use_limit[i]})
SomeNonzeroLimited(o) ==
    \E i \in 1..3 : Rotation(o).use_limit[i]
                      /\ (Rotation(o).min[i] # 0 \/ Rotation(o).max[i] # 0)

TypeRead == last.op = "getJointType"
TypeReturned == last.returned[1].jtype

(* C22: getJointType returns revolute when ncloc = 3, ncrot = 3 and some    *)
(* limited rotational axis has a nonzero min or max, fixed when ncloc = 3,  *)
(* ncrot = 3 and no limited axis has one, continuous when ncloc = 3 and     *)
(* ncrot = 2, prismatic when ncloc = 2 and planar when ncloc = 1 whatever   *)
(* the rotational record.                                                   *)
C22_DecisionTable ==
    (TypeRead /\ HasLocation(link))
    => /\ (Ncloc(link) = 3 /\ HasRotation(link) /\ Ncrot(link) = 3)
          => TypeReturned = IF SomeNonzeroLimited(link) THEN "revolute" ELSE "fixed"
       /\ (Ncloc(link) = 3 /\ HasRotation(link) /\ Ncrot(link) = 2)
          => TypeReturned = "continuous"
       /\ Ncloc(link) = 2 => TypeReturned = "prismatic"
       /\ Ncloc(link) = 1 => TypeReturned = "planar"

(* three locked translations, three limited rotations of which x is wide *)
C22_Witness ==
    /\ TypeRead /\ HasLocation(link) /\ HasRotation(link)
    /\ Ncloc(link) = 3 /\ Ncrot(link) = 3
    /\ Rotation(link).min = <<DefaultLower, 0, 0>>
    /\ Location(link).use_max = FFF
    /\ TypeReturned = "revolute"

(* a constraint set that matches no row of the decision table *)
NoRow(o) ==
    /\ HasLocation(o)
    /\ \/ Ncloc(o) = 0
       \/ Ncloc(o) = 3 /\ (~HasRotation(o) \/ Ncrot(o) \notin {2, 3})

(* C23 as stated: for a constraint set that matches no row of the decision  *)
(* table, getJointType and getJointConstraints end with the under-defined   *)
(* joint error and return no joint type, axis or limits.                    *)
C23_AsStated ==
    (last.op \in {"getJointType", "getJointConstraints"} /\ NoRow(link))
    => last.outcome = "JointTypeError" /\ last.returned = <<>>

(* C24 as stated: getJointType returns floating only for a link without a  *)
(* LIMIT_LOCATION record.                                                   *)
C24_AsStated ==
    (TypeRead /\ TypeReturned = "floating") => ~HasLocation(link)

(* locked as the claims define it: both enable flags set and min == max *)
Locked(c, i) == c.use_min[i] /\ c.use_max[i] /\ c.min[i] = c.max[i]

(* C25 as stated: the axes getJointType counts as locked and the axes       *)
(* getJointConstraints counts as locked are those with both enable flags    *)
(* set and min == max, so a set classified as prismatic or planar is        *)
(* resolved by getJointConstraints without the under-defined joint error.   *)
C25_AsStated ==
    (last.op = "getJointConstraints" /\ HasLocation(link))
    => /\ TypeLocked(Location(link)) = [i \in 1..3 |-> Locked(Location(link), i)]
       /\ ResolveLocked(Location(link)) = [i \in 1..3 |-> Locked(Location(link), i)]
       /\ getJointType(link).jtype \in {"prismatic", "planar"} => last.outcome = "done"

ConstraintsRead == last.op = "getJointConstraints"
LockedAxes(o) == {i \in 1..3 : Locked(Location(o), i)}
Failed == last.outcome = "JointTypeError" /\ last.returned = <<>>

(* C26: for a link that getJointType classifies as prismatic,               *)
(* getJointConstraints returns the bone axis and as limits the (min, max)   *)
(* of the one translational axis that is not locked when exactly two are    *)
(* locked, and ends with the under-defined joint error otherwise; it ends   *)
(* with that error too for a link classified as planar whose number of      *)
(* locked translational axes is not 1.                                      *)
C26_PrismaticResolution ==
    (ConstraintsRead /\ HasLocation(link))
    => /\ getJointType(link).jtype = "prismatic"
          => IF Cardinality(LockedAxes(link)) = 2
             THEN LET k == CHOOSE i \in 1..3 : i \notin LockedAxes(link)
                  IN  /\ last.outcome = "done"
                      /\ last.returned[1].axis = link.bone
                      /\ last.returned[1].limits =
                             <<Location(link).min[k], Location(link).max[k]>>
             ELSE Failed
       /\ (getJointType(link).jtype = "planar" /\ Cardinality(LockedAxes(link)) # 1)
          => Failed

(* y and z locked, x free with its wide range *)
C26_Witness ==
    /\ ConstraintsRead /\ HasLocation(link)
    /\ getJointType(link).jtype = "prismatic"
    /\ LockedAxes(link) = {2, 3}
    /\ last.returned[1].limits = <<DefaultLower, 0>>
    /\ last.returned[1].axis = <<0, 1, 0>>

(* C27: for a link classified as planar with exactly one translational     *)
(* axis locked, getJointConstraints returns the vector with 1 at that axis  *)
(* and 0 elsewhere and as limits (min, max) of the other two axes, the      *)
(* lower-numbered axis first; for a link as set_planar leaves it the axis   *)
(* is (0, 1, 0) and the limits are (min_x, max_x, min_z, max_z).            *)
C27_PlanarResolution ==
    (/\ ConstraintsRead /\ HasLocation(link)
     /\ getJointType(link).jtype = "planar"
     /\ Cardinality(LockedAxes(link)) = 1)
    => LET c == Location(link)
           a == CHOOSE i \in 1..3 : i \in LockedAxes(link)
           lo == CHOOSE i \in 1..3 : i # a /\ \A j \in 1..3 \ {a} : i <= j
           hi == CHOOSE i \in 1..3 : i # a /\ \A j \in 1..3 \ {a} : i >= j
       IN  /\ last.outcome = "done"
           /\ last.returned[1].axis = [i \in 1..3 |-> IF i = a THEN 1 ELSE 0]
           /\ last.returned[1].limits = <<c.min[lo], c.max[lo], c.min[hi], c.max[hi]>>
           /\ link = set_planar(NewObject("link"))
              => /\ last.returned[1].axis = <<0, 1, 0>>
                 /\ last.returned[1].limits = <<c.min[1], c.max[1], c.min[3], c.max[3]>>

(* x locked, y and z free with their wide ranges *)
C27_Witness ==
    /\ ConstraintsRead /\ HasLocation(link)
    /\ getJointType(link).jtype = "planar"
    /\ LockedAxes(link) = {1}
    /\ last.returned[1].axis = <<1, 0, 0>>
    /\ last.returned[1].limits = <<0, MaxVal, DefaultLower, MaxVal>>

(* C28: after a createJoint call on a link with one of the six known types *)
(* and lower < upper, whatever calls came before, the type getJointType     *)
(* derives from the link's constraints is the joint/type the call stored,   *)
(* the type of the call; a link last applied as floating derives as         *)
(* floating.                                                                *)
C28_TypeFollowsLastApply ==
    (/\ CreateDone
     /\ last.jointtype \in KnownTypes
     /\ last.lower < last.upper)
    => /\ link.props["joint/type"] = <<last.jointtype>>
       /\ getJointType(link).jtype = last.jointtype
       /\ last.jointtype = "floating" => link.constraints = <<>>

(* floating applied to a link that carried the records of an earlier joint *)
C28_Witness ==
    /\ CreateDone
    /\ last.jointtype = "floating"
    /\ last.lower < last.upper
    /\ \E i \in 1..Len(last.writes) : last.writes[i] = "remove"
    /\ getJointType(link).jtype = "floating"

(* C29 as stated: after a setJointConstraints call on a link, a             *)
(* joint/dynamics/* or joint/max*_approximation or joint/max*_coefficients  *)
(* property is present only if that call wrote it.                          *)
C29_AsStated ==
    SetDone
    => /\ \A k \in DynamicsKeys : HasKey(link, k) => DynamicsGate(last)
       /\ \A kind \in Kinds :
             HasKey(link, FunctionKey(kind))
             => last.jointtype \in ApproximationTypes /\ Given(last, kind) # {}

RevoluteDone == SetDone /\ last.jointtype = "revolute"

(* C30: a link built as revolute derives as revolute exactly when lower or  *)
(* upper is nonzero, and then getJointConstraints returns the limits        *)
(* (lower, upper); built with lower = upper = 0 it carries the constraint   *)
(* records of a fixed joint and derives as fixed.                           *)
C30_RevoluteRecovery ==
    RevoluteDone
    => /\ getJointType(link).jtype = "revolute" <=> (last.lower # 0 \/ last.upper # 0)
       /\ (last.lower # 0 \/ last.upper # 0)
          => /\ ~getJointConstraints(link).raised
             /\ getJointConstraints(link).limits = <<last.lower, last.upper>>
       /\ (last.lower = 0 /\ last.upper = 0)
          => /\ Records(link) = Built("fixed", 0, 0)
             /\ getJointType(link).jtype = "fixed"

C30_Witness ==
    /\ RevoluteDone
    /\ last.lower = 0 /\ last.upper = 0
    /\ Len(link.constraints) = 2
    /\ getJointType(link).jtype = "fixed"
    /\ link.props["joint/type"] = <<"revolute">>

====
